---- MODULE Spec2Model ----
(***************************************************************************)
(* Model of typeracer_stats.py: the Race record and its field schema, the  *)
(* two graphing operations (graph_stats, graph_cumulative_average), the    *)
(* prompt loop display_stats_loop and the per-player loop of main.         *)
(*                                                                         *)
(* Conventions.  Python text is a sequence of one-character strings.       *)
(* None is the empty sequence and a bound integer n is <<n>>.  A mean is   *)
(* the reduced fraction <<p, q>> and numpy's nan is <<>>.  Numbers read    *)
(* from the data source are integers (accuracy in hundredths); numpy's     *)
(* float rounding is outside the model.                                    *)
(***************************************************************************)
EXTENDS Integers, Sequences, FiniteSets, TLC

\* ------------------------------------------------------------------ bounds
MaxPlayers == 2
MaxRaces == 3
MaxHist == 4
MaxTextLen == 2
MaxWindow == 3

\* ------------------------------------------------------- Python primitives
None == <<>>
Some(n) == <<n>>
NaN == <<>>

Min(a, b) == IF a < b THEN a ELSE b
Max(a, b) == IF a > b THEN a ELSE b

RECURSIVE GCD(_, _)
GCD(a, b) == IF b = 0 THEN a ELSE GCD(b, a % b)

RECURSIVE Sum(_)
Sum(s) == IF Len(s) = 0 THEN 0 ELSE Head(s) + Sum(Tail(s))

\* list.reverse(): the list with its elements in the opposite order
Reverse(s) == [i \in 1..Len(s) |-> s[Len(s) + 1 - i]]

\* s[a:b] of a Python sequence (0-based, half open, negative indexes count
\* from the end, both ends clipped to the sequence)
SliceIndex(k, n) == IF k < 0 THEN Max(k + n, 0) ELSE Min(k, n)
PySlice(s, a, b) ==
    LET lo == SliceIndex(a, Len(s))
        hi == SliceIndex(b, Len(s))
    IN  IF lo >= hi THEN <<>> ELSE SubSeq(s, lo + 1, hi)

\* numpy.ndarray.mean(): sum / count, nan for an empty array
Mean(s) ==
    IF Len(s) = 0 THEN NaN
    ELSE LET t == Sum(s)
             g == GCD(IF t < 0 THEN -t ELSE t, Len(s))
         IN  <<t \div g, Len(s) \div g>>

\* ------------------------------------------------------------ Python text
LowerToUpper == [c \in {"y", "e", "s", "n", "o"} |->
                    CASE c = "y" -> "Y" [] c = "e" -> "E" [] c = "s" -> "S"
                      [] c = "n" -> "N" [] c = "o" -> "O"]
UpperChar(c) == IF c \in DOMAIN LowerToUpper THEN LowerToUpper[c] ELSE c
\* str.upper()
StrUpper(s) == [i \in 1..Len(s) |-> UpperChar(s[i])]
\* str.startswith(p)
StartsWith(s, p) == Len(s) >= Len(p) /\ SubSeq(s, 1, Len(p)) = p
\* variant: the answer is not upper-cased before the test
IsYes_CaseSensitive(s) == StartsWith(s, <<"Y">>)
\* input(...).upper().startswith("Y")
IsYes(s) == StartsWith(StrUpper(s), <<"Y">>)

\* characters a user can type at the window prompt: decimal digits, a sign,
\* a letter, and VULGAR_HALF (U+00BD), a character of Unicode numeric type
\* that is not a decimal digit
DecimalChars == {"0", "2"}
NumericChars == DecimalChars \cup {"VULGAR_HALF"}
WindowChars == NumericChars \cup {"-", "a"}
DigitValue(c) == IF c = "0" THEN 0 ELSE 2

\* str.isnumeric(): non-empty and every character numeric
IsNumeric(s) == Len(s) > 0 /\ \A i \in 1..Len(s) : s[i] \in NumericChars

RECURSIVE DecimalValue(_)
DecimalValue(s) ==
    IF Len(s) = 0 THEN 0
    ELSE 10 * DecimalValue(SubSeq(s, 1, Len(s) - 1)) + DigitValue(s[Len(s)])

AllDecimal(s) == Len(s) > 0 /\ \A i \in 1..Len(s) : s[i] \in DecimalChars

\* int(text): an optional sign then decimal digits, ValueError otherwise
PyInt(s) ==
    IF AllDecimal(s) THEN [err |-> "none", v |-> DecimalValue(s)]
    ELSE IF Len(s) > 1 /\ s[1] = "-" /\ AllDecimal(Tail(s))
         THEN [err |-> "none", v |-> 0 - DecimalValue(Tail(s))]
         ELSE [err |-> "ValueError", v |-> 0]

RECURSIVE TextsUpTo(_, _)
TextsUpTo(chars, n) ==
    IF n = 0 THEN {<<>>}
    ELSE LET shorter == TextsUpTo(chars, n - 1)
         IN  shorter \cup {Append(t, c) : t \in shorter, c \in chars}

WindowTexts == TextsUpTo(WindowChars, MaxTextLen)
AnswerTexts == {<<>>, <<"y">>, <<"Y", "e", "s">>, <<"n">>, <<"N", "o">>,
                <<"n", "y">>}

\* --------------------------------------------------------------- class Race
VALID_FIELDS == {"accuracy", "num_players", "wpm", "place", "timestamp",
                 "time", "skill_level", "text_id", "game_number", "points"}
NUMERIC_FIELDS == {"accuracy", "num_players", "wpm", "place", "timestamp",
                   "text_id", "game_number", "points"}

is_valid_field(field) == field \in VALID_FIELDS
\* variant: the field prompt tests VALID_FIELDS
is_numeric_field_AsValid(field) == field \in VALID_FIELDS
is_numeric_field(field) == field \in NUMERIC_FIELDS

\* the keyword arguments of Race.__init__
RaceKeys == {"ac", "np", "wpm", "r", "t", "sl", "tid", "gn", "pts"}

\* time.gmtime(t), reduced to the day count and the time of day
Gmtime(t) == [tm_days |-> t \div 86400,
              tm_hour |-> (t % 86400) \div 3600,
              tm_min  |-> (t % 3600) \div 60,
              tm_sec  |-> t % 60]

\* Race(**d) for a dict with exactly the nine keys; the record's fields are
\* the read-only properties of the class
RaceInit(d) == [accuracy    |-> d.ac,
                num_players |-> d.np,
                wpm         |-> d.wpm,
                place       |-> d.r,
                timestamp   |-> d.t,
                time        |-> Gmtime(d.t),
                skill_level |-> d.sl,
                text_id     |-> d.tid,
                game_number |-> d.gn,
                points      |-> d.pts]

\* ------------------------------------------------------------- data source
\* The service answers a games request with a JSON list of objects keyed
\* ac, np, wpm, r, t, sl, tid, gn, pts, most recent race first.
SkillLevel == <<"L", "2">>

RawRace(gn, v) == [ac |-> 90 + gn, np |-> 5, wpm |-> v, r |-> 1 + (gn % 5),
                   t |-> 1600000000 + 86400 * gn + 3661, sl |-> SkillLevel,
                   tid |-> 3550000 + gn, gn |-> gn, pts |-> 2 * v]
\* an object of the service that lacks the pts key
ShortRace(gn, v) == [ac |-> 90 + gn, np |-> 5, wpm |-> v, r |-> 1 + (gn % 5),
                     t |-> 1600000000 + 86400 * gn + 3661, sl |-> SkillLevel,
                     tid |-> 3550000 + gn, gn |-> gn]

RECURSIVE SeqsUpTo(_, _)
SeqsUpTo(vals, n) ==
    IF n = 0 THEN {<<>>}
    ELSE LET shorter == SeqsUpTo(vals, n - 1)
         IN  shorter \cup {Append(t, v) : t \in shorter, v \in vals}

\* a player's games on the service, highest game number first
WellFormed(vs) == [i \in 1..Len(vs) |-> RawRace(Len(vs) + 1 - i, vs[i])]
\* the same with the oldest game lacking a key
OldestShort(vs) == [i \in 1..Len(vs) |->
                      IF i = Len(vs) THEN ShortRace(1, vs[i])
                      ELSE RawRace(Len(vs) + 1 - i, vs[i])]
\* the speeds of a player with n games, most recent first
Speeds(n) == [i \in 1..n |-> 10 * (n + 1 - i)]
RemoteHistories ==
    {WellFormed(Speeds(n)) : n \in 0..MaxRaces}
    \cup {OldestShort(Speeds(n)) : n \in 1..MaxRaces}

\* what requests.get(url) followed by r.json() can meet
ResponseKinds == {"json", "ConnectionError", "JSONDecodeError"}
NoResponse == [kind |-> "none", body |-> <<>>]
\* the answer to  games?n=num  : the num most recent games of the history,
\* or the failure of the request or of the JSON decoding
Request(kind, history, n) ==
    [kind |-> kind,
     body |-> IF kind = "json" THEN SubSeq(history, 1, Min(n, Len(history)))
              ELSE <<>>]

\* load_races: Race(**d) for every object of the answer
load_races(resp) ==
    IF resp.kind # "json" THEN [err |-> resp.kind, races |-> <<>>]
    ELSE IF \E i \in 1..Len(resp.body) : DOMAIN resp.body[i] # RaceKeys
         THEN [err |-> "TypeError", races |-> <<>>]
         ELSE [err |-> "none",
               races |-> [i \in 1..Len(resp.body) |-> RaceInit(resp.body[i])]]

\* get_game_count: game number of load_races(username, 1)[0]
get_game_count(resp) ==
    LET got == load_races(resp)
    IN  IF got.err # "none" THEN [err |-> got.err, n |-> 0]
        ELSE IF Len(got.races) = 0 THEN [err |-> "IndexError", n |-> 0]
        ELSE [err |-> "none", n |-> got.races[1].game_number]

\* -------------------------------------------------------------- aggregator
\* float(text) as numpy applies it when a str is stored in a float array
PyFloat(s) == IF AllDecimal(s) THEN [err |-> "none", v |-> DecimalValue(s)]
              ELSE [err |-> "ValueError", v |-> 0]

\* the exception of  stats[i] = getattr(race, field)  , "none" when it stores
SetItemErr(race, field) ==
    IF field \notin DOMAIN race THEN "AttributeError"
    ELSE IF field = "skill_level" THEN PyFloat(race.skill_level).err
    ELSE IF field = "time" THEN "ValueError"
    ELSE "none"

\* the number stored by  stats[i] = getattr(race, field)
ItemValue(race, field) ==
    IF field = "skill_level" THEN PyFloat(race.skill_level).v
    ELSE race[field]

Label(prefix, field, window) ==
    [prefix |-> prefix, field |-> field, window |-> window]
NoLabel == Label("", "", None)
NoPlot == [kind |-> "none", x |-> <<>>, y |-> <<>>, title |-> "",
           xlabel |-> NoLabel, ylabel |-> NoLabel]

\* variant: both arrays are filled from xfield
graph_stats_SameField(races, username, xfield, yfield) ==
    LET num_races == Len(races)
    IN  [err |-> "none",
         plot |-> [kind |-> "stats",
                   x |-> [i \in 1..num_races |-> ItemValue(races[i], xfield)],
                   y |-> [i \in 1..num_races |-> ItemValue(races[i], xfield)],
                   title |-> username,
                   xlabel |-> Label("", xfield, None),
                   ylabel |-> Label("", yfield, None)]]

\* graph_stats: fill stats1 and stats2 race by race, then plot them
graph_stats(races, username, xfield, yfield) ==
    LET num_races == Len(races)
        bad == {i \in 1..num_races :
                   \/ SetItemErr(races[i], xfield) # "none"
                   \/ SetItemErr(races[i], yfield) # "none"}
    IN  IF bad # {}
        THEN LET i == CHOOSE k \in bad : \A j \in bad : k <= j
             IN  [err |-> IF SetItemErr(races[i], xfield) # "none"
                          THEN SetItemErr(races[i], xfield)
                          ELSE SetItemErr(races[i], yfield),
                  plot |-> NoPlot]
        ELSE [err |-> "none",
              plot |-> [kind |-> "stats",
                        x |-> [i \in 1..num_races |-> ItemValue(races[i], xfield)],
                        y |-> [i \in 1..num_races |-> ItemValue(races[i], yfield)],
                        title |-> username,
                        xlabel |-> Label("", xfield, None),
                        ylabel |-> Label("", yfield, None)]]

\* variant: the window is ignored
RunningAverages_Lifetime(stats2, num) ==
    [k \in 1..Len(stats2) |-> Mean(PySlice(stats2, 0, k))]

\* variant: the loop runs over range(num_races)
RunningAverages_ZeroBased(stats2, num) ==
    [k \in 1..Len(stats2) |->
        IF num = None \/ k - 1 < num[1]
        THEN Mean(PySlice(stats2, 0, k - 1))
        ELSE Mean(PySlice(stats2, k - 1 - num[1], k - 1))]

\* the running-average loop of graph_cumulative_average over the collected
\* numbers stats2
RunningAverages(stats2, num) ==
    [k \in 1..Len(stats2) |->
        IF num = None \/ k < num[1]
        THEN Mean(PySlice(stats2, 0, k))
        ELSE Mean(PySlice(stats2, k - num[1], k))]

\* graph_cumulative_average: game numbers against the running average
graph_cumulative_average(races, username, yfield, num) ==
    LET num_races == Len(races)
        bad == {i \in 1..num_races : SetItemErr(races[i], yfield) # "none"}
    IN  IF bad # {}
        THEN LET i == CHOOSE k \in bad : \A j \in bad : k <= j
             IN  [err |-> SetItemErr(races[i], yfield), plot |-> NoPlot]
        ELSE LET stats1 == [i \in 1..num_races |-> races[i].game_number]
                 stats2 == [i \in 1..num_races |-> ItemValue(races[i], yfield)]
             IN  [err |-> "none",
                  plot |-> [kind |-> "average",
                            x |-> stats1,
                            y |-> RunningAverages(stats2, num),
                            title |-> username,
                            xlabel |-> Label("Game Number", "", None),
                            ylabel |-> Label("Cumulative", yfield, num)]]

\* ------------------------------------------------------------------- state
VARIABLES
    pc,          \* position in main / display_stats_loop, or of a direct call
    argv,        \* sys.argv[1:]
    usernames,   \* the players main goes through
    ui,          \* index of the current player in usernames
    remote,      \* the games the service holds for the player being fetched
    response,    \* the answer of the service to the last request
    num_races,   \* result of get_game_count, then len(races)
    races,       \* the list of Race objects main loaded last
    line,        \* the line input() returned last
    to_continue, \* locals of display_stats_loop
    is_running,
    num,
    xfield,
    yfield,
    plot,        \* the request the plot sink is showing (plt.show() blocks)
    requests,    \* plot requests made in the current round of the loop
    started,     \* players display_stats_loop was called for, in order
    stderr,      \* players reported on standard error, in order
    err          \* the exception that left the program or the direct call

vars == <<pc, argv, usernames, ui, remote, response, num_races, races, line, to_continue,
          is_running, num, xfield, yfield, plot, requests, started, stderr,
          err>>

Players == {"A", "B"}
\* what a user types at a field prompt
FieldInputs == {"wpm", "game_number", "skill_level", "time", "bogus", ""}
Unbound == ""
\* a line read by input(), with the prompt it answered
Line(prompt, text) == [prompt |-> prompt, text |-> text]
NoLine == Line("", <<>>)

username == usernames[ui]

locals == <<to_continue, is_running, num, xfield, yfield>>
shown == <<plot, requests>>
loaded == <<remote, response, num_races, races>>
logs == <<started, stderr>>

Init ==
    /\ pc = "start"
    /\ argv \in SeqsUpTo(Players, MaxPlayers)
    /\ usernames = <<>>
    /\ ui = 1
    /\ remote = <<>>
    /\ response = NoResponse
    /\ num_races = 0
    /\ races = <<>>
    /\ line = NoLine
    /\ to_continue = FALSE
    /\ is_running = FALSE
    /\ num = None
    /\ xfield = Unbound
    /\ yfield = Unbound
    /\ plot = NoPlot
    /\ requests = 0
    /\ started = <<>>
    /\ stderr = <<>>
    /\ err = "none"

\* ----------------------------------------------------------------- main
\* lines 282-284: the players come from the command line
MainArgs ==
    /\ pc = "start"
    /\ Len(argv) > 0
    /\ usernames' = argv
    /\ pc' = "for_username"
    /\ UNCHANGED <<argv, ui, loaded, line, locals, shown, logs, err>>

\* lines 285-287: or from one prompt
MainPrompt ==
    /\ pc = "start"
    /\ Len(argv) = 0
    /\ \E name \in Players : usernames' = <<name>> /\ line' = Line("username", name)
    /\ pc' = "for_username"
    /\ UNCHANGED <<argv, ui, loaded, locals, shown, logs, err>>

\* line 289: the for loop takes the next player or main returns
ForUsername ==
    /\ pc = "for_username"
    /\ pc' = IF ui <= Len(usernames) THEN "get_game_count" ELSE "exit"
    /\ UNCHANGED <<argv, usernames, ui, loaded, line, locals, shown, logs, err>>

\* variant: the handler is missing and the exception leaves main
GetGameCount_Uncaught ==
    /\ pc = "get_game_count"
    /\ \E history \in RemoteHistories, kind \in ResponseKinds :
         LET resp == Request(kind, history, 1)
             res == get_game_count(resp)
         IN  /\ response' = resp
             /\ IF res.err = "none"
                THEN /\ remote' = history
                     /\ num_races' = res.n
                     /\ pc' = "load_races"
                     /\ err' = err
                ELSE /\ err' = res.err
                     /\ pc' = "crashed"
                     /\ UNCHANGED <<remote, num_races>>
    /\ UNCHANGED <<argv, usernames, ui, races, line, locals, shown, logs>>

\* lines 290-293 and the handler 296-298: get_game_count(username)
GetGameCount ==
    /\ pc = "get_game_count"
    /\ \E history \in RemoteHistories, kind \in ResponseKinds :
         LET resp == Request(kind, history, 1)
             res == get_game_count(resp)
         IN  /\ response' = resp
             /\ IF res.err = "none"
                THEN /\ remote' = history
                     /\ num_races' = res.n
                     /\ pc' = "load_races"
                     /\ UNCHANGED <<ui, stderr>>
                ELSE /\ stderr' = Append(stderr, username)
                     /\ ui' = ui + 1
                     /\ pc' = "for_username"
                     /\ UNCHANGED <<remote, num_races>>
    /\ UNCHANGED <<argv, usernames, races, line, locals, shown, started, err>>

\* lines 294-306 and 255: load_races(username, num_races); on success the
\* else branch counts the races and calls display_stats_loop
LoadRaces ==
    /\ pc = "load_races"
    /\ \E kind \in ResponseKinds :
         LET resp == Request(kind, remote, num_races)
             res == load_races(resp)
         IN  /\ response' = resp
             /\ IF res.err = "none"
                THEN /\ races' = res.races
                     /\ num_races' = Len(res.races)
                     /\ started' = Append(started, username)
                     /\ to_continue' = TRUE
                     /\ pc' = "while"
                     /\ UNCHANGED <<ui, stderr>>
                ELSE /\ stderr' = Append(stderr, username)
                     /\ ui' = ui + 1
                     /\ pc' = "for_username"
                     /\ UNCHANGED <<races, num_races, started, to_continue>>
    /\ remote' = <<>>
    /\ UNCHANGED <<argv, usernames, line, is_running, num, xfield, yfield,
                   shown, err>>

\* ------------------------------------------------------ display_stats_loop
\* line 256: another round, or the loop ends and main moves to the next player
WhileToContinue ==
    /\ pc = "while"
    /\ IF to_continue
       THEN /\ pc' = "mode"
            /\ UNCHANGED <<ui, locals>>
       ELSE /\ pc' = "for_username"
            /\ ui' = ui + 1
            /\ to_continue' = FALSE
            /\ is_running' = FALSE
            /\ num' = None
            /\ xfield' = Unbound
            /\ yfield' = Unbound
    /\ UNCHANGED <<argv, usernames, loaded, line, shown, logs, err>>

\* line 258: "View stat as running average?"
AskMode ==
    /\ pc = "mode"
    /\ \E answer \in AnswerTexts :
         /\ line' = Line("mode", answer)
         /\ is_running' = IsYes(answer)
         /\ pc' = IF IsYes(answer) THEN "window" ELSE "xfield"
    /\ UNCHANGED <<argv, usernames, ui, loaded, to_continue, num, xfield,
                   yfield, shown, logs, err>>

\* line 260: "Number of races to average over:"
AskWindow ==
    /\ pc = "window"
    /\ \E text \in WindowTexts : line' = Line("window", text) /\ num' = text
    /\ pc' = "window_parse"
    /\ UNCHANGED <<argv, usernames, ui, loaded, to_continue, is_running,
                   xfield, yfield, shown, logs, err>>

\* lines 261-264: int(num) when num.isnumeric(), None otherwise
ParseWindow ==
    /\ pc = "window_parse"
    /\ IF IsNumeric(num)
       THEN IF PyInt(num).err = "none"
            THEN /\ num' = Some(PyInt(num).v)
                 /\ pc' = "yfield"
                 /\ err' = err
            ELSE /\ err' = PyInt(num).err
                 /\ pc' = "crashed"
                 /\ num' = num
       ELSE /\ num' = None
            /\ pc' = "yfield"
            /\ err' = err
    /\ UNCHANGED <<argv, usernames, ui, loaded, line, to_continue, is_running,
                   xfield, yfield, shown, logs>>

\* line 268 with get_field: one answer to the "X field" prompt
GetXField ==
    /\ pc = "xfield"
    /\ \E field \in FieldInputs :
         /\ line' = Line("X field", field)
         /\ IF is_numeric_field(field)
            THEN xfield' = field /\ pc' = "yfield"
            ELSE xfield' = xfield /\ pc' = pc
    /\ UNCHANGED <<argv, usernames, ui, loaded, to_continue, is_running, num,
                   yfield, shown, logs, err>>

\* line 269 with get_field: one answer to the "Y field" prompt
GetYField ==
    /\ pc = "yfield"
    /\ \E field \in FieldInputs :
         /\ line' = Line("Y field", field)
         /\ IF is_numeric_field(field)
            THEN yfield' = field /\ pc' = "render"
            ELSE yfield' = yfield /\ pc' = pc
    /\ UNCHANGED <<argv, usernames, ui, loaded, to_continue, is_running, num,
                   xfield, shown, logs, err>>

\* lines 271-275: reverse and graph the running average, or graph the pairs
Render ==
    /\ pc = "render"
    /\ LET input == IF is_running THEN Reverse(races) ELSE races
           res == IF is_running
                  THEN graph_cumulative_average(input, username, yfield, num)
                  ELSE graph_stats(input, username, xfield, yfield)
       IN  /\ races' = input
           /\ IF res.err = "none"
              THEN /\ plot' = res.plot
                   /\ requests' = requests + 1
                   /\ pc' = "another"
                   /\ err' = err
              ELSE /\ err' = res.err
                   /\ pc' = "crashed"
                   /\ UNCHANGED <<plot, requests>>
    /\ UNCHANGED <<argv, usernames, ui, remote, response, num_races, line,
                   locals, logs>>

\* line 279: plt.show() has returned; "View another stat?"
AskAnother ==
    /\ pc = "another"
    /\ plot' = NoPlot
    /\ requests' = 0
    /\ \E answer \in AnswerTexts :
         /\ line' = Line("another", answer)
         /\ to_continue' = IsYes(answer)
    /\ pc' = "while"
    /\ UNCHANGED <<argv, usernames, ui, loaded, is_running, num, xfield,
                   yfield, logs, err>>

Next ==
    \/ MainArgs
    \/ MainPrompt
    \/ ForUsername
    \/ GetGameCount
    \/ LoadRaces
    \/ WhileToContinue
    \/ AskMode
    \/ AskWindow
    \/ ParseWindow
    \/ GetXField
    \/ GetYField
    \/ Render
    \/ AskAnother

Spec == Init /\ [][Next]_vars

\* ------------------------------------------- direct calls of the aggregator
\* A caller other than display_stats_loop hands a list of Race objects, in
\* ascending game number, and arguments of its own to a graphing function.
AggValues == {10, 20, 30, 40}
Ascending(vs) == [i \in 1..Len(vs) |-> RaceInit(RawRace(i, vs[i]))]
AggHistories == {Ascending(vs) : vs \in SeqsUpTo(AggValues, MaxHist)}
AggWindows == {None} \cup {Some(n) : n \in (0 - 1)..MaxWindow}

AggInit ==
    /\ pc = "call"
    /\ argv = <<"A">>
    /\ usernames = <<"A">>
    /\ ui = 1
    /\ remote = <<>>
    /\ response = NoResponse
    /\ races \in AggHistories
    /\ num_races = Len(races)
    /\ line = NoLine
    /\ to_continue = FALSE
    /\ is_running = FALSE
    /\ num = None
    /\ xfield = Unbound
    /\ yfield = Unbound
    /\ plot = NoPlot
    /\ requests = 0
    /\ started = <<>>
    /\ stderr = <<>>
    /\ err = "none"

\* graph_stats(races, username, xfield, yfield)
CallGraphStats ==
    /\ pc = "call"
    /\ \E xf \in FieldInputs, yf \in FieldInputs :
         LET res == graph_stats(races, username, xf, yf)
         IN  /\ xfield' = xf
             /\ yfield' = yf
             /\ plot' = res.plot
             /\ err' = res.err
             /\ requests' = IF res.err = "none" THEN 1 ELSE 0
    /\ pc' = "stats_returned"
    /\ UNCHANGED <<argv, usernames, ui, loaded, line, to_continue, is_running,
                   num, logs>>

\* graph_cumulative_average(races, username, yfield, num)
CallGraphCumulativeAverage ==
    /\ pc = "call"
    /\ \E yf \in FieldInputs, w \in AggWindows :
         LET res == graph_cumulative_average(races, username, yf, w)
         IN  /\ yfield' = yf
             /\ num' = w
             /\ plot' = res.plot
             /\ err' = res.err
             /\ requests' = IF res.err = "none" THEN 1 ELSE 0
    /\ pc' = "average_returned"
    /\ UNCHANGED <<argv, usernames, ui, loaded, line, to_continue, is_running,
                   xfield, logs>>

AggNext ==
    \/ CallGraphStats
    \/ CallGraphCumulativeAverage

SpecAgg == AggInit /\ [][AggNext]_vars

\* ------------------------------------------------------------------ claims
SessionPcs == {"while", "mode", "window", "window_parse", "xfield", "yfield",
               "render", "another"}

StrictlyAscending(s) == \A i, j \in 1..Len(s) : i < j => s[i] < s[j]
GameNumbers(rs) == [i \in 1..Len(rs) |-> rs[i].game_number]
Wpms(rs) == [i \in 1..Len(rs) |-> rs[i].wpm]

\* the total of field f over races lo..hi (1-based, inclusive)
RECURSIVE FieldTotal(_, _, _, _)
FieldTotal(rs, f, lo, hi) ==
    IF lo > hi THEN 0 ELSE rs[hi][f] + FieldTotal(rs, f, lo, hi - 1)

\* m is the mean of field f over races lo..hi: a fraction p/q, q > 0, with
\* p * count = q * total
IsMeanOf(m, rs, f, lo, hi) ==
    /\ Len(m) = 2
    /\ m[2] > 0
    /\ m[1] * (hi - lo + 1) = m[2] * FieldTotal(rs, f, lo, hi)

\* a running average of a numeric field is on display
AverageShown == plot.kind = "average" /\ yfield \in NUMERIC_FIELDS
\* graph_cumulative_average was called and has returned or raised
AverageCalled == pc = "average_returned" \/ (pc = "another" /\ is_running)

\* C1: in every round that selects the running average, the history handed
\* to graph_cumulative_average is in strictly ascending game number, and so
\* is the x series of the plot.
C1_RunningInputOldestFirst ==
    (pc = "another" /\ plot.kind = "average") =>
        /\ StrictlyAscending(GameNumbers(races))
        /\ StrictlyAscending(plot.x)

\* C2: a call of the moving average with a window of 0 or less fails with
\* InvalidArgumentError and produces no series.
C2_NonPositiveWindowRejected ==
    (AverageCalled /\ num # None /\ num[1] <= 0) =>
        (err = "InvalidArgumentError" /\ plot.kind = "none")

\* C3: with a window w >= 1 the average at position i is the mean over races
\* [0, i) when i < w and over the w most recent races [i-w, i) when i >= w;
\* window 2 on 10, 20, 30, 40 gives 10, 15, 25, 35.
C3_WindowedAverage ==
    (AverageShown /\ num # None /\ num[1] >= 1) =>
        /\ Len(plot.y) = Len(races)
        /\ \A i \in 1..Len(races) :
             IsMeanOf(plot.y[i], races, yfield,
                      IF i < num[1] THEN 1 ELSE i - num[1] + 1, i)
        /\ (yfield = "wpm" /\ num = Some(2) /\ Wpms(races) = <<10, 20, 30, 40>>)
             => plot.y = << <<10, 1>>, <<15, 1>>, <<25, 1>>, <<35, 1>> >>

C3_Witness ==
    /\ pc = "average_returned"
    /\ yfield = "wpm"
    /\ num = Some(2)
    /\ Wpms(races) = <<10, 20, 30, 40>>
    /\ plot.kind = "average"
    /\ plot.y[3] = <<25, 1>>

\* C4: with no window the output has one point per race and the point at
\* position i is the mean over races [0, i); 10, 20, 30 gives 10, 15, 20.
C4_LifetimeAverage ==
    (AverageShown /\ num = None) =>
        /\ Len(plot.y) = Len(races)
        /\ Len(plot.x) = Len(races)
        /\ \A i \in 1..Len(races) : IsMeanOf(plot.y[i], races, yfield, 1, i)
        /\ (yfield = "wpm" /\ Wpms(races) = <<10, 20, 30>>)
             => plot.y = << <<10, 1>>, <<15, 1>>, <<20, 1>> >>

C4_Witness ==
    /\ pc = "average_returned"
    /\ yfield = "wpm"
    /\ num = None
    /\ Wpms(races) = <<10, 20, 30>>
    /\ plot.kind = "average"
    /\ Len(plot.y) = 3

\* C5: graph_stats with numeric fields produces two series of the length of
\* the history, x[i] and y[i] being the x and y values of history[i], and
\* leaves the history as it was.
C5_PairedSeries ==
    [][((pc = "call" /\ pc' = "stats_returned")
          /\ xfield' \in NUMERIC_FIELDS /\ yfield' \in NUMERIC_FIELDS)
       => /\ races' = races
          /\ plot'.kind = "stats"
          /\ Len(plot'.x) = Len(races)
          /\ Len(plot'.y) = Len(races)
          /\ \A i \in 1..Len(races) :
               /\ plot'.x[i] = races[i][xfield']
               /\ plot'.y[i] = races[i][yfield']]_vars

C5_Witness ==
    /\ pc = "stats_returned"
    /\ xfield = "game_number"
    /\ yfield = "wpm"
    /\ Len(races) >= 2
    /\ plot.kind = "stats"
    /\ plot.y[2] # plot.x[2]

\* C6: a field prompt answered with a name outside NUMERIC_FIELDS prompts
\* again and plots nothing, and every name handed to a graphing function is
\* in NUMERIC_FIELDS.
C6_OnlyNumericFieldsReachAggregator ==
    [][/\ (pc \in {"xfield", "yfield"} /\ line'.text \notin NUMERIC_FIELDS)
            => (pc' = pc /\ plot' = plot /\ xfield' = xfield /\ yfield' = yfield)
       /\ pc = "render"
            => /\ yfield \in NUMERIC_FIELDS
               /\ ~is_running => xfield \in NUMERIC_FIELDS]_vars

C6_Witness ==
    /\ pc = "yfield"
    /\ ~is_running
    /\ xfield = "game_number"
    /\ line.prompt = "Y field"
    /\ line.text = "skill_level"
    /\ plot.kind = "none"

\* C7: a failed fetch for a player, in the count request or in the full load,
\* is caught and reported for that player, starts no session for them, and
\* main goes on to the next player; every supplied player is taken in order.
FetchFailed ==
    \/ response'.kind # "json"
    \/ (pc = "get_game_count" /\ Len(response'.body) = 0)
    \/ \E i \in 1..Len(response'.body) : DOMAIN response'.body[i] # RaceKeys

C7_FetchFailureSkipsPlayer ==
    [][/\ pc \in {"get_game_count", "load_races"} =>
            IF FetchFailed
            THEN /\ pc' = "for_username"
                 /\ err' = "none"
                 /\ stderr' = Append(stderr, username)
                 /\ started' = started
                 /\ ui' = ui + 1
            ELSE /\ pc' \in {"load_races", "while"}
                 /\ stderr' = stderr
                 /\ ui' = ui
       /\ (pc = "for_username" /\ ui <= Len(usernames))
            => (pc' = "get_game_count" /\ ui' = ui)]_vars

C7_Witness ==
    /\ pc = "mode"
    /\ ui = 2
    /\ stderr = <<usernames[1]>>
    /\ started = <<usernames[2]>>

\* C8: a text at the window prompt that is not a non-negative integer
\* literal means no window, and the session goes on to the field prompt
\* without an error.
AsciiDigits == {"0", "1", "2", "3", "4", "5", "6", "7", "8", "9"}
NonNegativeLiteral(text) ==
    Len(text) > 0 /\ \A i \in 1..Len(text) : text[i] \in AsciiDigits

C8_NonLiteralMeansNoWindow ==
    [][(pc = "window_parse" /\ ~NonNegativeLiteral(num))
          => (num' = None /\ pc' = "yfield" /\ err' = "none")]_vars

\* C9: graph_stats called with a field that is not numeric, in the x or the
\* y position, fails with InvalidFieldError and produces no series.
C9_NonNumericFieldRejected ==
    (pc = "stats_returned"
       /\ (xfield \notin NUMERIC_FIELDS \/ yfield \notin NUMERIC_FIELDS))
      => (err = "InvalidFieldError" /\ plot.kind = "none")

\* C10: a round goes from the mode prompt through the field prompts to one
\* plot request; after it the loop goes back to the mode prompt exactly when
\* the answer to "View another stat?" starts with y or Y, and the next
\* player is taken only when the loop has ended.
AnswerStartsWithY(text) == Len(text) > 0 /\ text[1] \in {"y", "Y"}

====
